---- MODULE Spec2Model ----
(***************************************************************************)
(* Model of the ChromaBiz backend (src/backend/server.py): the in-memory   *)
(* per-client quota map (check_rate_limit / get_remaining_limits), the     *)
(* palette extraction (parse_palette_response), the fallback catalog and   *)
(* the two request handlers generate_palettes and chat_with_ai.            *)
(*                                                                         *)
(* Time is a discrete clock `now`; one day (timedelta(days=1)) is          *)
(* TicksPerDay ticks.  Palette ids (uuid4) are not modelled.               *)
(***************************************************************************)
EXTENDS Integers, Sequences, FiniteSets, TLC

\* ---------------------------------------------------------------- bounds
TicksPerDay == 2
MaxTime == 3
NumSlots == 2

\* ------------------------------------------------------ program constants
GenerationCap == 1
RevisionCap == 3

Day == TicksPerDay
Clients == {"ip1", "ip2"}
Times == 0..MaxTime
LimitTypes == {"generation", "revision", "other"}
Kinds == {"generation", "revision"}
NoRecord == [generations |-> -1, revisions |-> -1, reset_time |-> -1]

VARIABLES
  rate_limits,   \* ip -> record, NoRecord when `ip not in rate_limits`
  now,           \* datetime.now(timezone.utc), in ticks
  ret,           \* the last call made on the quota map and what it returned
  seen,          \* history: ip -> kinds checked since the record was last (re)set
  granted,       \* history: ip -> kind -> calls allowed since the record was last (re)set
  recent,        \* history: ip -> kind -> calls allowed at now, now-1, .. now-Day+1
  response_text, \* the text handed to parse_palette_response
  parsed,        \* what parse_palette_response did with it
  req,           \* request slot -> the request being handled, waiting on the provider
  gemini_api_key,\* whether GOOGLE_GEMINI_API_KEY is set in the environment
  resp,          \* the HTTP response produced by the last step, if any
  fallback       \* the last call of generate_fallback_palettes and its result

vars == <<rate_limits, now, ret, seen, granted, recent, response_text, parsed,
          req, gemini_api_key, resp, fallback>>

\* ------------------------------------------------------------ QuotaTracker
Cap(limit_type) == IF limit_type = "generation" THEN GenerationCap ELSE RevisionCap

FreshRecord(t) ==
  [generations |-> GenerationCap, revisions |-> RevisionCap, reset_time |-> t + Day]

\* variant: the reset restores the counters but keeps the old deadline
AfterCreateOrResetKeepsDeadline(rl, ip, t) ==
  LET created == IF rl[ip] = NoRecord THEN FreshRecord(t) ELSE rl[ip]
  IN  IF t >= created.reset_time
        THEN [FreshRecord(t) EXCEPT !.reset_time = created.reset_time]
        ELSE created

\* lines 118-131: lazy creation, then lazy reset of the record
AfterCreateOrReset(rl, ip, t) ==
  LET created == IF rl[ip] = NoRecord THEN FreshRecord(t) ELSE rl[ip]
  IN  IF t >= created.reset_time THEN FreshRecord(t) ELSE created

\* variant: the floor test is `< 0` where the code has `<= 0`
ConsumeBelowFloor(rec, limit_type) ==
  IF limit_type = "generation" THEN
    IF rec.generations < 0
      THEN [rec |-> rec, allowed |-> FALSE, remaining |-> 0]
      ELSE [rec |-> [rec EXCEPT !.generations = @ - 1], allowed |-> TRUE,
            remaining |-> rec.generations - 1]
  ELSE IF limit_type = "revision" THEN
    IF rec.revisions < 0
      THEN [rec |-> rec, allowed |-> FALSE, remaining |-> 0]
      ELSE [rec |-> [rec EXCEPT !.revisions = @ - 1], allowed |-> TRUE,
            remaining |-> rec.revisions - 1]
  ELSE [rec |-> rec, allowed |-> FALSE, remaining |-> 0]

\* variant: a refused call still charges the other counter
ConsumeChargesOnRefusal(rec, limit_type) ==
  IF limit_type = "generation" THEN
    IF rec.generations <= 0
      THEN [rec |-> [rec EXCEPT !.revisions = IF @ > 0 THEN @ - 1 ELSE @],
            allowed |-> FALSE, remaining |-> 0]
      ELSE [rec |-> [rec EXCEPT !.generations = @ - 1], allowed |-> TRUE,
            remaining |-> rec.generations - 1]
  ELSE IF limit_type = "revision" THEN
    IF rec.revisions <= 0
      THEN [rec |-> [rec EXCEPT !.generations = IF @ > 0 THEN @ - 1 ELSE @],
            allowed |-> FALSE, remaining |-> 0]
      ELSE [rec |-> [rec EXCEPT !.revisions = @ - 1], allowed |-> TRUE,
            remaining |-> rec.revisions - 1]
  ELSE [rec |-> rec, allowed |-> FALSE, remaining |-> 0]

\* variant: the call returns the counter it read, not the one it wrote
ConsumeReturnsOldValue(rec, limit_type) ==
  IF limit_type = "generation" THEN
    IF rec.generations <= 0
      THEN [rec |-> rec, allowed |-> FALSE, remaining |-> 0]
      ELSE [rec |-> [rec EXCEPT !.generations = @ - 1], allowed |-> TRUE,
            remaining |-> rec.generations]
  ELSE IF limit_type = "revision" THEN
    IF rec.revisions <= 0
      THEN [rec |-> rec, allowed |-> FALSE, remaining |-> 0]
      ELSE [rec |-> [rec EXCEPT !.revisions = @ - 1], allowed |-> TRUE,
            remaining |-> rec.revisions]
  ELSE [rec |-> rec, allowed |-> FALSE, remaining |-> 0]

\* variant: the counter is decremented first and tested afterwards
ConsumeTestsAfterDecrement(rec, limit_type) ==
  IF limit_type = "generation" THEN
    IF rec.generations - 1 < 0
      THEN [rec |-> [rec EXCEPT !.generations = @ - 1], allowed |-> FALSE, remaining |-> 0]
      ELSE [rec |-> [rec EXCEPT !.generations = @ - 1], allowed |-> TRUE,
            remaining |-> rec.generations - 1]
  ELSE IF limit_type = "revision" THEN
    IF rec.revisions - 1 < 0
      THEN [rec |-> [rec EXCEPT !.revisions = @ - 1], allowed |-> FALSE, remaining |-> 0]
      ELSE [rec |-> [rec EXCEPT !.revisions = @ - 1], allowed |-> TRUE,
            remaining |-> rec.revisions - 1]
  ELSE [rec |-> rec, allowed |-> FALSE, remaining |-> 0]

\* lines 133-144: the decrement of the counter named by limit_type
Consume(rec, limit_type) ==
  IF limit_type = "generation" THEN
    IF rec.generations <= 0
      THEN [rec |-> rec, allowed |-> FALSE, remaining |-> 0]
      ELSE [rec |-> [rec EXCEPT !.generations = @ - 1], allowed |-> TRUE,
            remaining |-> rec.generations - 1]
  ELSE IF limit_type = "revision" THEN
    IF rec.revisions <= 0
      THEN [rec |-> rec, allowed |-> FALSE, remaining |-> 0]
      ELSE [rec |-> [rec EXCEPT !.revisions = @ - 1], allowed |-> TRUE,
            remaining |-> rec.revisions - 1]
  ELSE [rec |-> rec, allowed |-> FALSE, remaining |-> 0]

\* variant: the call also resets every other record whose window has ended
check_rate_limit_resets_every_client(rl, ip, limit_type, t) ==
  LET rec == AfterCreateOrReset(rl, ip, t)
      c   == Consume(rec, limit_type)
  IN  [rate_limits |->
         [other \in DOMAIN rl |->
            IF other = ip THEN c.rec
            ELSE IF rl[other] # NoRecord /\ t >= rl[other].reset_time
              THEN FreshRecord(t)
            ELSE rl[other]],
       allowed |-> c.allowed, remaining |-> c.remaining]

\* variant: the decrement is made on a copy of the record and never stored
check_rate_limit_lost_update(rl, ip, limit_type, t) ==
  LET rec == AfterCreateOrReset(rl, ip, t)
      c   == Consume(rec, limit_type)
  IN  [rate_limits |-> [rl EXCEPT ![ip] = rec],
       allowed |-> c.allowed, remaining |-> c.remaining]

\* check_rate_limit(ip, limit_type) run at time t on the map rl: the map it
\* leaves and the pair it returns.  The function has no await, so it runs
\* to completion before any other request is served.
check_rate_limit(rl, ip, limit_type, t) ==
  LET rec == AfterCreateOrReset(rl, ip, t)
      c   == Consume(rec, limit_type)
  IN  [rate_limits |-> [rl EXCEPT ![ip] = c.rec],
       allowed |-> c.allowed, remaining |-> c.remaining]

isoformat(t) == <<"iso8601", t>>

\* variant: the status read commits the reset it reports
get_remaining_limits_commits(rl, ip, t) ==
  IF rl[ip] = NoRecord \/ t >= rl[ip].reset_time
    THEN [rate_limits |-> [rl EXCEPT ![ip] = FreshRecord(t)],
          value |-> [generations_remaining |-> 1, revisions_remaining |-> 3,
                     reset_time |-> isoformat(t + Day)]]
    ELSE [rate_limits |-> rl,
          value |-> [generations_remaining |-> rl[ip].generations,
                     revisions_remaining |-> rl[ip].revisions,
                     reset_time |-> isoformat(rl[ip].reset_time)]]

\* get_remaining_limits(ip) run at time t on the map rl
get_remaining_limits(rl, ip, t) ==
  IF rl[ip] = NoRecord \/ t >= rl[ip].reset_time
    THEN [rate_limits |-> rl,
          value |-> [generations_remaining |-> 1, revisions_remaining |-> 3,
                     reset_time |-> isoformat(t + Day)]]
    ELSE [rate_limits |-> rl,
          value |-> [generations_remaining |-> rl[ip].generations,
                     revisions_remaining |-> rl[ip].revisions,
                     reset_time |-> isoformat(rl[ip].reset_time)]]

\* ------------------------------------------------------ history variables
\* the call is the one that creates or resets the record of ip
StartsWindow(rl, ip, t) == rl[ip] = NoRecord \/ t >= rl[ip].reset_time

SeenAfter(sn, rl, ip, limit_type, t) ==
  [sn EXCEPT ![ip] = (IF StartsWindow(rl, ip, t) THEN {} ELSE @)
                        \cup ({limit_type} \cap Kinds)]

GrantedAfter(g, rl, ip, limit_type, t, allowed) ==
  [g EXCEPT ![ip] = [k \in Kinds |->
      (IF StartsWindow(rl, ip, t) THEN 0 ELSE @[k])
      + (IF allowed /\ k = limit_type THEN 1 ELSE 0)]]

RecentAfter(rc, ip, limit_type, allowed) ==
  IF allowed THEN [rc EXCEPT ![ip][limit_type][1] = @ + 1] ELSE rc

\* the clock advances one tick: the counts of the oldest tick fall out
RecentShift(rc) ==
  [ip \in Clients |-> [k \in Kinds |->
      [i \in 1..Day |-> IF i = 1 THEN 0 ELSE rc[ip][k][i - 1]]]]

\* -------------------------------------------------------- ResponseExtractor
\* The reply text is a sequence of tokens: punctuation, string literals,
\* numbers, the literal null, and words of prose.  A bracket inside a string
\* literal is part of the literal's token.
Punct(s) == [c |-> "punct", s |-> s]
StrTok(s) == [c |-> "str", s |-> s]
NumTok == [c |-> "num", s |-> "1"]
NullTok == [c |-> "lit", s |-> "null"]
Word(s) == [c |-> "word", s |-> s]

\* A JSON value: t is its type, s the text of a string, a the elements of an
\* array or the members of an object (each member carries its key in k).
JStr(s) == [k |-> "", t |-> "str", s |-> s, a |-> <<>>]
JNum == [k |-> "", t |-> "num", s |-> "1", a |-> <<>>]
JNull == [k |-> "", t |-> "null", s |-> "", a |-> <<>>]
JArr(elems) == [k |-> "", t |-> "arr", s |-> "", a |-> elems]
JObj(members) == [k |-> "", t |-> "obj", s |-> "", a |-> members]
Member(key, v) == [v EXCEPT !.k = key]

\* json.loads on a token sequence (recursive descent); ok = FALSE stands for
\* JSONDecodeError.  ParseValue reads one value starting at token i.
NoParse == [ok |-> FALSE, v |-> JNull, next |-> 0]

RECURSIVE ParseValue(_, _), ParseElems(_, _, _), ParseMembers(_, _, _)
ParseValue(toks, i) ==
  IF i > Len(toks) THEN NoParse
  ELSE LET tk == toks[i] IN
    IF tk.c = "str" THEN [ok |-> TRUE, v |-> JStr(tk.s), next |-> i + 1]
    ELSE IF tk.c = "num" THEN [ok |-> TRUE, v |-> JNum, next |-> i + 1]
    ELSE IF tk.c = "lit" THEN [ok |-> TRUE, v |-> JNull, next |-> i + 1]
    ELSE IF tk = Punct("[") THEN
      IF i + 1 <= Len(toks) /\ toks[i + 1] = Punct("]")
        THEN [ok |-> TRUE, v |-> JArr(<<>>), next |-> i + 2]
        ELSE ParseElems(toks, i + 1, <<>>)
    ELSE IF tk = Punct("{") THEN
      IF i + 1 <= Len(toks) /\ toks[i + 1] = Punct("}")
        THEN [ok |-> TRUE, v |-> JObj(<<>>), next |-> i + 2]
        ELSE ParseMembers(toks, i + 1, <<>>)
    ELSE NoParse

\* the elements of an array after `[` or `,`, up to and including `]`
ParseElems(toks, i, acc) ==
  LET r == ParseValue(toks, i) IN
  IF ~r.ok \/ r.next > Len(toks) THEN NoParse
  ELSE IF toks[r.next] = Punct("]")
    THEN [ok |-> TRUE, v |-> JArr(Append(acc, r.v)), next |-> r.next + 1]
  ELSE IF toks[r.next] = Punct(",")
    THEN ParseElems(toks, r.next + 1, Append(acc, r.v))
  ELSE NoParse

\* the members of an object after `{` or `,`, up to and including `}`
ParseMembers(toks, i, acc) ==
  IF i + 1 > Len(toks) \/ toks[i].c # "str" \/ toks[i + 1] # Punct(":") THEN NoParse
  ELSE LET r == ParseValue(toks, i + 2) IN
    IF ~r.ok \/ r.next > Len(toks) THEN NoParse
    ELSE IF toks[r.next] = Punct("}")
      THEN [ok |-> TRUE, v |-> JObj(Append(acc, Member(toks[i].s, r.v))),
            next |-> r.next + 1]
    ELSE IF toks[r.next] = Punct(",")
      THEN ParseMembers(toks, r.next + 1, Append(acc, Member(toks[i].s, r.v)))
    ELSE NoParse

json_loads(toks) ==
  LET r == ParseValue(toks, 1)
  IN  IF r.ok /\ r.next = Len(toks) + 1
        THEN [ok |-> TRUE, v |-> r.v]
        ELSE [ok |-> FALSE, v |-> JNull]

\* dict.get(key, default): the last member with that key wins
dict_get(obj, key, default) ==
  LET hits == {i \in 1..Len(obj.a) : obj.a[i].k = key}
  IN  IF hits = {} THEN default
      ELSE Member("", obj.a[CHOOSE i \in hits : \A j \in hits : j <= i])

\* `for x in v`: the elements of a list, the keys of a dict, the characters
\* of a string (one string element stands for them); anything else raises
\* TypeError
Iterate(v) ==
  IF v.t = "arr" THEN [ok |-> TRUE, items |-> [i \in 1..Len(v.a) |-> Member("", v.a[i])]]
  ELSE IF v.t = "obj" THEN [ok |-> TRUE, items |-> [i \in 1..Len(v.a) |-> JStr(v.a[i].k)]]
  ELSE IF v.t = "str" THEN [ok |-> TRUE, items |-> IF v.s = "" THEN <<>> ELSE <<JStr(v.s)>>]
  ELSE [ok |-> FALSE, items |-> <<>>]

\* the outcome of parse_palette_response: the palettes returned, or the
\* exception that left the function
Returned(palettes) == [raised |-> FALSE, exc |-> "", palettes |-> palettes]
Raised(exc) == [raised |-> TRUE, exc |-> exc, palettes |-> <<>>]

\* Color(hex=color.get("hex", "#000000"), ...), lines 187-191
BuildColor(color) ==
  IF color.t # "obj" THEN [raised |-> TRUE, exc |-> "AttributeError", color |-> <<>>]
  ELSE LET h == dict_get(color, "hex", JStr("#000000"))
           n == dict_get(color, "name", JStr("Unknown"))
           u == dict_get(color, "usage", JStr("General"))
       IN  IF h.t # "str" \/ n.t # "str" \/ u.t # "str"
             THEN [raised |-> TRUE, exc |-> "ValidationError", color |-> <<>>]
             ELSE [raised |-> FALSE, exc |-> "",
                   color |-> <<[hex |-> h.s, name |-> n.s, usage |-> u.s]>>]

\* the loop of lines 186-191 from element i on; acc holds the colors so far
RECURSIVE BuildColors(_, _, _)
BuildColors(items, i, acc) ==
  IF i > Len(items) THEN [raised |-> FALSE, exc |-> "", colors |-> acc]
  ELSE LET c == BuildColor(items[i]) IN
    IF c.raised THEN [raised |-> TRUE, exc |-> c.exc, colors |-> <<>>]
    ELSE BuildColors(items, i + 1, acc \o c.color)

\* the body of the loop over the candidate palettes, lines 185-197
BuildPalette(item) ==
  IF item.t # "obj" THEN [raised |-> TRUE, exc |-> "AttributeError", palette |-> <<>>]
  ELSE LET it == Iterate(dict_get(item, "colors", JArr(<<>>))) IN
    IF ~it.ok THEN [raised |-> TRUE, exc |-> "TypeError", palette |-> <<>>]
    ELSE LET cs == BuildColors(it.items, 1, <<>>) IN
      IF cs.raised THEN [raised |-> TRUE, exc |-> cs.exc, palette |-> <<>>]
      ELSE LET n == dict_get(item, "name", JStr("Palette"))
               d == dict_get(item, "description", JStr(""))
               y == dict_get(item, "psychology", JStr(""))
           IN  IF n.t # "str" \/ d.t # "str" \/ y.t # "str"
                 THEN [raised |-> TRUE, exc |-> "ValidationError", palette |-> <<>>]
                 ELSE [raised |-> FALSE, exc |-> "",
                       palette |-> <<[name |-> n.s, description |-> d.s,
                                      colors |-> cs.colors, psychology |-> y.s]>>]

\* the loops of lines 184-198 and 207-221 from element i on
RECURSIVE BuildPalettes(_, _, _)
BuildPalettes(items, i, acc) ==
  IF i > Len(items) THEN Returned(acc)
  ELSE LET q == BuildPalette(items[i]) IN
    IF q.raised THEN Raised(q.exc)
    ELSE BuildPalettes(items, i + 1, acc \o q.palette)

\* `for item in <v>` over a parsed value
PalettesOf(v) ==
  LET it == Iterate(v)
  IN  IF ~it.ok THEN Raised("TypeError") ELSE BuildPalettes(it.items, 1, <<>>)

Positions(toks, tok) == {i \in 1..Len(toks) : toks[i] = tok}
First(S) == CHOOSE i \in S : \A j \in S : i <= j
Last(S) == CHOOSE i \in S : \A j \in S : j <= i
NoMatch == [found |-> FALSE, sub |-> <<>>]

\* re.search(r'\[[\s\S]*\]'): from the first `[` to the last `]` after it
ArrayMatch(toks) ==
  LET opens == Positions(toks, Punct("["))
      closes == Positions(toks, Punct("]"))
  IN  IF opens = {} \/ closes = {} \/ Last(closes) < First(opens) THEN NoMatch
      ELSE [found |-> TRUE, sub |-> SubSeq(toks, First(opens), Last(closes))]

\* re.search(r'\{[\s\S]*"palettes"[\s\S]*\}'): from the first `{` that has a
\* "palettes" literal and then a `}` after it, to the last `}`
ObjectMatch(toks) ==
  LET opens == Positions(toks, Punct("{"))
      closes == Positions(toks, Punct("}"))
      keys == Positions(toks, StrTok("palettes"))
      ok == {i \in opens : \E j \in keys, l \in closes : i < j /\ j < l}
  IN  IF ok = {} THEN NoMatch
      ELSE [found |-> TRUE, sub |-> SubSeq(toks, First(ok), Last(closes))]

\* variant: the object scan is tried before the array scan
parse_palette_response_object_first(text) ==
  LET am == ArrayMatch(text)
      ad == json_loads(am.sub)
      om == ObjectMatch(text)
      od == json_loads(om.sub)
  IN  IF om.found /\ od.ok
        THEN PalettesOf(dict_get(od.v, "palettes", JArr(<<>>)))
      ELSE IF am.found /\ ad.ok THEN PalettesOf(ad.v)
      ELSE Returned(<<>>)

\* parse_palette_response(text), lines 175-225
parse_palette_response(text) ==
  LET am == ArrayMatch(text)
      ad == json_loads(am.sub)
      om == ObjectMatch(text)
      od == json_loads(om.sub)
  IN  IF am.found /\ ad.ok THEN PalettesOf(ad.v)
      ELSE IF om.found /\ od.ok
        THEN PalettesOf(dict_get(od.v, "palettes", JArr(<<>>)))
      ELSE Returned(<<>>)

\* --------------------------------------------------------- FallbackCatalog
Color(hex, name, usage) == [hex |-> hex, name |-> name, usage |-> usage]
Palette(name, description, psychology, colors) ==
  [name |-> name, description |-> description, colors |-> colors,
   psychology |-> psychology]

WarmAppetite ==
  Palette("Warm Appetite",
          "Warm, inviting colors that stimulate appetite",
          "Red and orange stimulate hunger, while earth tones create comfort",
          <<Color("#D4380D", "Tomato Red", "Primary"),
            Color("#FA8C16", "Orange Zest", "Secondary"),
            Color("#FADB14", "Golden Yellow", "Accent"),
            Color("#F5F0E6", "Cream", "Background"),
            Color("#3D3D3D", "Espresso", "Text")>>)

DigitalTrust ==
  Palette("Digital Trust",
          "Modern, trustworthy tech palette",
          "Blue conveys trust and reliability, common in tech branding",
          <<Color("#1890FF", "Tech Blue", "Primary"),
            Color("#13C2C2", "Cyan", "Secondary"),
            Color("#722ED1", "Purple", "Accent"),
            Color("#F0F5FF", "Ice White", "Background"),
            Color("#262626", "Charcoal", "Text")>>)

ProfessionalClassic ==
  Palette("Professional Classic",
          "Timeless professional palette",
          "Blue builds trust, neutral tones provide balance",
          <<Color("#2F54EB", "Royal Blue", "Primary"),
            Color("#597EF7", "Light Blue", "Secondary"),
            Color("#F5222D", "Action Red", "Accent"),
            Color("#FAFAFA", "Off White", "Background"),
            Color("#1F1F1F", "Near Black", "Text")>>)

ModernMinimal ==
  Palette("Modern Minimal",
          "Clean, contemporary design",
          "Monochrome with accent creates sophisticated modern feel",
          <<Color("#000000", "Pure Black", "Primary"),
            Color("#595959", "Gray", "Secondary"),
            Color("#EB2F96", "Magenta", "Accent"),
            Color("#FFFFFF", "White", "Background"),
            Color("#262626", "Dark Gray", "Text")>>)

NatureInspired ==
  Palette("Nature Inspired",
          "Organic, earthy tones",
          "Green represents growth and harmony, connecting to nature",
          <<Color("#52C41A", "Fresh Green", "Primary"),
            Color("#389E0D", "Forest", "Secondary"),
            Color("#FAAD14", "Sunflower", "Accent"),
            Color("#F6FFED", "Mint Cream", "Background"),
            Color("#135200", "Deep Green", "Text")>>)

WarmSunset ==
  Palette("Warm Sunset",
          "Energetic and inviting",
          "Warm colors evoke energy, passion, and friendliness",
          <<Color("#FA541C", "Sunset Orange", "Primary"),
            Color("#FAAD14", "Gold", "Secondary"),
            Color("#F5222D", "Coral Red", "Accent"),
            Color("#FFF7E6", "Warm White", "Background"),
            Color("#AD2102", "Deep Orange", "Text")>>)

CoolOcean ==
  Palette("Cool Ocean",
          "Calm and refreshing",
          "Cool tones promote relaxation and trust",
          <<Color("#1890FF", "Ocean Blue", "Primary"),
            Color("#13C2C2", "Teal", "Secondary"),
            Color("#722ED1", "Purple Accent", "Accent"),
            Color("#E6F7FF", "Sky White", "Background"),
            Color("#003A8C", "Deep Blue", "Text")>>)

\* the keys of fallback_palettes, lines 339 and 353
FallbackKeys == {"Food & Beverage", "Technology"}

fallback_palettes(category) ==
  IF category = "Food & Beverage" THEN <<WarmAppetite>> ELSE <<DigitalTrust>>

default_palettes ==
  <<ProfessionalClassic, ModernMinimal, NatureInspired, WarmSunset, CoolOcean>>

\* variant: fallback_palettes.get(category, []), no default list
generate_fallback_palettes_no_default(category) ==
  IF category \in FallbackKeys THEN fallback_palettes(category) ELSE <<>>

\* generate_fallback_palettes(category): fallback_palettes.get(category,
\* default_palettes)
generate_fallback_palettes(category) ==
  IF category \in FallbackKeys THEN fallback_palettes(category) ELSE default_palettes

\* category strings to look up: the two keys, the empty string, and strings
\* that contain, extend or differ in case from a key
CategoryParts ==
  {"", " ", "Food", " & ", "Beverage", "Food & Beverage", "Technology",
   "technology", "Nonexistent Category"}
Categories == {a \o b \o c : a, b, c \in CategoryParts}

NotLookedUp == [called |-> FALSE, category |-> "", palettes |-> <<>>]

\* ------------------------------------------------- reply texts to extract
\* json.dumps in tokens: the texts a provider can reply with are built from
\* JSON documents, wrapped in prose or cut short
RECURSIVE Dumps(_), DumpElems(_, _), DumpMembers(_, _)
Dumps(v) ==
  IF v.t = "str" THEN <<StrTok(v.s)>>
  ELSE IF v.t = "num" THEN <<NumTok>>
  ELSE IF v.t = "null" THEN <<NullTok>>
  ELSE IF v.t = "arr" THEN <<Punct("[")>> \o DumpElems(v.a, 1) \o <<Punct("]")>>
  ELSE <<Punct("{")>> \o DumpMembers(v.a, 1) \o <<Punct("}")>>
DumpElems(a, i) ==
  IF i > Len(a) THEN <<>>
  ELSE Dumps(a[i]) \o (IF i < Len(a) THEN <<Punct(",")>> ELSE <<>>) \o DumpElems(a, i + 1)
DumpMembers(a, i) ==
  IF i > Len(a) THEN <<>>
  ELSE <<StrTok(a[i].k), Punct(":")>> \o Dumps(a[i])
       \o (IF i < Len(a) THEN <<Punct(",")>> ELSE <<>>) \o DumpMembers(a, i + 1)

FullColor == JObj(<<Member("hex", JStr("#111111")), Member("name", JStr("X")),
                    Member("usage", JStr("Primary"))>>)
NoUsageColor == JObj(<<Member("hex", JStr("#222222")), Member("name", JStr("Y"))>>)
ColorCands ==
  {FullColor, NoUsageColor, JObj(<<>>), JObj(<<Member("hex", JNum)>>), JNum, JStr("red")}
ColorsCands ==
  {JArr(<<>>), JNum, JNull, JStr(""), JStr("red"), JObj(<<>>),
   JObj(<<Member("hex", JStr("#111111"))>>)}
  \cup {JArr(<<c>>) : c \in ColorCands}
  \cup {JArr(<<FullColor, c>>) : c \in ColorCands}
NameCands == {<<>>, <<Member("name", JStr("A"))>>, <<Member("name", JNum)>>}
FullPalette ==
  JObj(<<Member("name", JStr("A")), Member("colors", JArr(<<FullColor>>)),
         Member("description", JStr("d")), Member("psychology", JStr("p"))>>)
PaletteCands ==
  {FullPalette, JNum, JNull, JStr("s"), JArr(<<>>)}
  \cup {JObj(n) : n \in NameCands}
  \cup {JObj(n \o <<Member("colors", c)>>) : n \in NameCands, c \in ColorsCands}
SecondCands ==
  {FullPalette, JNum, JObj(<<>>), JObj(<<Member("colors", JNum)>>)}
ArrayDocs ==
  {JArr(<<>>)}
  \cup {JArr(<<q>>) : q \in PaletteCands}
  \cup {JArr(<<q, r>>) : q \in SecondCands, r \in SecondCands}
ObjectDocs ==
  {JObj(<<Member("palettes", a)>>) : a \in ArrayDocs}
  \cup {JObj(<<Member("palettes", v)>>) :
          v \in {JNum, JNull, JStr(""), JStr("s"), JObj(<<>>),
                 JObj(<<Member("name", JStr("A"))>>)}}
  \cup {JObj(<<Member("palettes", a), Member("extra", JArr(<<>>))>>) :
          a \in {JArr(<<q>>) : q \in SecondCands}}
  \cup {JObj(<<Member("extra", JArr(<<>>)), Member("palettes", JArr(<<FullPalette>>))>>),
        JObj(<<Member("data", JArr(<<FullPalette>>))>>),
        JObj(<<Member("data", JNum)>>), JObj(<<>>)}
\* objects whose "palettes" field and whose only array disagree
OrderDocs ==
  {JObj(<<Member("palettes", v), Member("data", JArr(<<FullPalette>>))>>) :
     v \in {JStr(""), JObj(<<>>), JNum}}
Prefixes ==
  {<<>>, <<Word("Here")>>, <<Word("see"), Punct("["), NumTok, Punct("]")>>,
   <<Punct("{"), StrTok("palettes")>>}
Suffixes == {<<>>, <<Word("Enjoy")>>, <<Punct("]")>>}
CutShort(toks) == IF toks = <<>> THEN <<>> ELSE SubSeq(toks, 1, Len(toks) - 1)
Texts ==
  LET whole == {pre \o Dumps(d) \o suf :
                  pre \in Prefixes, suf \in Suffixes,
                  d \in ArrayDocs \cup ObjectDocs \cup OrderDocs}
  IN  whole \cup {CutShort(t) : t \in whole}
      \cup {<<>>, <<Word("Sorry")>>, <<NumTok>>, <<StrTok("palettes")>>}

NotParsed == [raised |-> FALSE, exc |-> "not called", palettes |-> <<>>]

\* ---------------------------------------------------------- GatewayService
\* the requests that can be in progress at once, and the clients sending them
Slots == 1..NumSlots
Callers == {"ip1"}
RequestCategories == {"Technology", "Nonexistent Category"}
IdleSlot == [pc |-> "idle", endpoint |-> "", ip |-> "", category |-> "", remaining |-> 0]

\* what model.generate_content can do: raise, return a response without a
\* text attribute, or return a text
ValidReply == <<Word("Here")>> \o Dumps(JArr(<<FullPalette>>))
ProseReply == <<Word("Sorry")>>
EmptyArrayReply == Dumps(JArr(<<>>))
NumbersReply == Dumps(JArr(<<JNum>>))
GenerationReplies ==
  {[outcome |-> "raises", text |-> <<>>, reply |-> ""],
   [outcome |-> "no_text", text |-> <<>>, reply |-> ""]}
  \cup {[outcome |-> "text", text |-> t, reply |-> ""] :
          t \in {ValidReply, ProseReply, EmptyArrayReply, NumbersReply}}
ChatReplies ==
  {[outcome |-> "raises", text |-> <<>>, reply |-> ""],
   [outcome |-> "no_text", text |-> <<>>, reply |-> ""],
   [outcome |-> "text", text |-> <<>>, reply |-> "Try #1890FF as primary"],
   [outcome |-> "text", text |-> <<>>, reply |-> ""]}
NoReply == [outcome |-> "not called", text |-> <<>>, reply |-> ""]

NoLimits == [generations_remaining |-> 0, revisions_remaining |-> 0,
             reset_time |-> isoformat(0)]
NoResponse ==
  [endpoint |-> "", ip |-> "", status |-> 0, detail |-> "", palettes |-> <<>>,
   response |-> "", remaining |-> 0, limits |-> NoLimits,
   prompt_built |-> FALSE, provider |-> NoReply]

\* raise HTTPException(status_code, detail)
HTTPException(endpoint, ip, status_code, detail, prompt_built) ==
  [NoResponse EXCEPT !.endpoint = endpoint, !.ip = ip, !.status = status_code,
                     !.detail = detail, !.prompt_built = prompt_built]

\* variant: the credentials are tested first and a request without them
\* never reaches the quota check
AdmitRequestKeyFirst(rl, ip, limit_type, t, key) ==
  IF key THEN check_rate_limit(rl, ip, limit_type, t)
  ELSE [rate_limits |-> rl, allowed |-> TRUE, remaining |-> 0]

\* lines 267-272 and 441-446: both handlers make the quota check first; the
\* credentials (lines 308-311, 448-451) are tested after it and no later
\* line writes rate_limits
AdmitRequest(rl, ip, limit_type, t, key) == check_rate_limit(rl, ip, limit_type, t)

\* variant: the fallback is used when the provider raises, not when the
\* extraction is empty
PalettesForNoFallbackOnEmpty(provider, category) ==
  IF provider.outcome = "raises" THEN generate_fallback_palettes(category)
  ELSE LET p == IF provider.outcome = "text"
                  THEN parse_palette_response(provider.text)
                  ELSE Returned(<<>>)
       IN  IF p.raised THEN generate_fallback_palettes(category) ELSE p.palettes

\* lines 315-333: the palettes generate_palettes responds with for a
\* provider outcome; every exception inside the try leads to the fallback
PalettesFor(provider, category) ==
  IF provider.outcome = "raises" THEN generate_fallback_palettes(category)
  ELSE LET p == IF provider.outcome = "text"
                  THEN parse_palette_response(provider.text)
                  ELSE Returned(<<>>)
       IN  IF p.raised \/ p.palettes = <<>>
             THEN generate_fallback_palettes(category)
             ELSE p.palettes

\* ----------------------------------------------------------------- actions
NoCall == [op |-> "none", ip |-> "", limit_type |-> "", allowed |-> FALSE,
           remaining |-> 0, gen |-> 0, rev |-> 0, reset |-> isoformat(0)]

\* the map is empty when the process starts (line 26)
QuotaStart ==
  /\ rate_limits = [ip \in Clients |-> NoRecord]
  /\ now = 0
  /\ ret = NoCall
  /\ seen = [ip \in Clients |-> {}]
  /\ granted = [ip \in Clients |-> [k \in Kinds |-> 0]]
  /\ recent = [ip \in Clients |-> [k \in Kinds |-> [i \in 1..Day |-> 0]]]

ParseIdle ==
  /\ response_text = <<>>
  /\ parsed = NotParsed

GatewayIdle ==
  /\ req = [s \in Slots |-> IdleSlot]
  /\ gemini_api_key = TRUE
  /\ resp = NoResponse

CatalogIdle == fallback = NotLookedUp

QInit == QuotaStart /\ ParseIdle /\ GatewayIdle /\ CatalogIdle

\* what a call of check_rate_limit(ip, limit_type) made now returns
CheckReturn(ip, limit_type) ==
  LET r == check_rate_limit(rate_limits, ip, limit_type, now)
  IN  [NoCall EXCEPT !.op = "check", !.ip = ip, !.limit_type = limit_type,
                     !.allowed = r.allowed, !.remaining = r.remaining]

\* what a call of get_remaining_limits(ip) made now returns
StatusReturn(ip) ==
  LET r == get_remaining_limits(rate_limits, ip, now)
  IN  [NoCall EXCEPT !.op = "status", !.ip = ip,
                     !.gen = r.value.generations_remaining,
                     !.rev = r.value.revisions_remaining,
                     !.reset = r.value.reset_time]

\* QuotaSpec: the calls on the quota map, with what each returned and the
\* per-window history (seen, granted)
CheckRateLimit(ip, limit_type) ==
  /\ rate_limits' = check_rate_limit(rate_limits, ip, limit_type, now).rate_limits
  /\ ret' = CheckReturn(ip, limit_type)
  /\ seen' = SeenAfter(seen, rate_limits, ip, limit_type, now)
  /\ granted' = GrantedAfter(granted, rate_limits, ip, limit_type, now, ret'.allowed)
  /\ UNCHANGED <<fallback, now, recent, response_text, parsed,
               req, gemini_api_key, resp>>

GetRemainingLimits(ip) ==
  /\ rate_limits' = get_remaining_limits(rate_limits, ip, now).rate_limits
  /\ ret' = StatusReturn(ip)
  /\ UNCHANGED <<fallback, now, seen, granted, recent, response_text, parsed,
               req, gemini_api_key, resp>>

Tick ==
  /\ now < MaxTime
  /\ now' = now + 1
  /\ ret' = NoCall
  /\ UNCHANGED <<fallback, rate_limits, seen, granted, recent, response_text, parsed,
               req, gemini_api_key, resp>>

QNext ==
  \/ \E ip \in Clients, limit_type \in LimitTypes : CheckRateLimit(ip, limit_type)
  \/ \E ip \in Clients : GetRemainingLimits(ip)
  \/ Tick

QuotaSpec == QInit /\ [][QNext]_vars

\* WindowSpec: the check_rate_limit calls with the history of the allowed
\* calls of the last day (recent) in place of the per-call return value.
\* get_remaining_limits writes none of the variables this history is about.
TimedCheckRateLimit(ip, limit_type) ==
  /\ rate_limits' = check_rate_limit(rate_limits, ip, limit_type, now).rate_limits
  /\ granted' = GrantedAfter(granted, rate_limits, ip, limit_type, now,
                             CheckReturn(ip, limit_type).allowed)
  /\ recent' = RecentAfter(recent, ip, limit_type, CheckReturn(ip, limit_type).allowed)
  /\ ret' = NoCall
  /\ UNCHANGED <<fallback, now, seen, response_text, parsed,
               req, gemini_api_key, resp>>

TimedTick ==
  /\ now < MaxTime
  /\ now' = now + 1
  /\ ret' = NoCall
  /\ recent' = RecentShift(recent)
  /\ UNCHANGED <<fallback, rate_limits, seen, granted, response_text, parsed,
               req, gemini_api_key, resp>>

WNext ==
  \/ \E ip \in Clients, limit_type \in LimitTypes : TimedCheckRateLimit(ip, limit_type)
  \/ TimedTick

WindowSpec == QInit /\ [][WNext]_vars

\* ParseSpec: parse_palette_response applied to any of the reply texts
PInit ==
  /\ QuotaStart
  /\ response_text \in Texts
  /\ parsed = NotParsed
  /\ GatewayIdle
  /\ CatalogIdle

ParsePaletteResponse ==
  /\ parsed = NotParsed
  /\ parsed' = parse_palette_response(response_text)
  /\ UNCHANGED <<fallback, rate_limits, now, ret, seen, granted, recent, response_text,
               req, gemini_api_key, resp>>

PNext == ParsePaletteResponse

ParseSpec == PInit /\ [][PNext]_vars

\* CatalogSpec: generate_fallback_palettes applied to any of the category
\* strings, any number of times
GenerateFallbackPalettes(category) ==
  /\ fallback' = [called |-> TRUE, category |-> category,
                  palettes |-> generate_fallback_palettes(category)]
  /\ UNCHANGED <<rate_limits, now, ret, seen, granted, recent, response_text, parsed,
                 req, gemini_api_key, resp>>

CNext == \E category \in Categories : GenerateFallbackPalettes(category)

CatalogSpec == QInit /\ [][CNext]_vars

\* GatewaySpec: the three endpoints.  A handler runs without interruption up
\* to its call of the provider and again from the provider's answer to the
\* response; other requests are served while it waits.
GInit ==
  /\ QuotaStart
  /\ ParseIdle
  /\ req = [s \in Slots |-> IdleSlot]
  /\ gemini_api_key \in BOOLEAN
  /\ resp = NoResponse
  /\ CatalogIdle

\* generate_palettes, lines 262-314: quota check, prompt, credentials
GeneratePalettes(s, ip, category) ==
  LET r == AdmitRequest(rate_limits, ip, "generation", now, gemini_api_key) IN
  /\ req[s].pc = "idle"
  /\ rate_limits' = r.rate_limits
  /\ granted' = GrantedAfter(granted, rate_limits, ip, "generation", now, r.allowed)
  /\ IF ~r.allowed THEN
       /\ resp' = HTTPException("generate-palettes", ip, 429,
                    "Daily generation limit reached. Please try again tomorrow.", FALSE)
       /\ req' = req
     ELSE IF ~gemini_api_key THEN
       /\ resp' = HTTPException("generate-palettes", ip, 500,
                    "Google Gemini API key not configured", TRUE)
       /\ req' = req
     ELSE
       /\ resp' = NoResponse
       /\ req' = [req EXCEPT ![s] = [pc |-> "provider", endpoint |-> "generate-palettes",
                                     ip |-> ip, category |-> category,
                                     remaining |-> r.remaining]]
  /\ UNCHANGED <<fallback, now, ret, seen, recent, response_text, parsed, gemini_api_key>>

\* generate_palettes, lines 315-333: the provider's answer and the response
GeneratePalettesRespond(s, provider) ==
  /\ req[s].pc = "provider"
  /\ req[s].endpoint = "generate-palettes"
  /\ resp' = [NoResponse EXCEPT !.endpoint = "generate-palettes", !.ip = req[s].ip,
                                !.status = 200,
                                !.palettes = PalettesFor(provider, req[s].category),
                                !.remaining = req[s].remaining,
                                !.prompt_built = TRUE, !.provider = provider]
  /\ req' = [req EXCEPT ![s] = IdleSlot]
  /\ UNCHANGED <<fallback, rate_limits, now, ret, seen, granted, recent, response_text, parsed,
                 gemini_api_key>>

\* chat_with_ai, lines 436-467: quota check, credentials, context.  A context
\* whose business_info is not an object with string age groups raises
\* outside the try.
ChatWithAi(s, ip, context_ok) ==
  LET r == AdmitRequest(rate_limits, ip, "revision", now, gemini_api_key) IN
  /\ req[s].pc = "idle"
  /\ rate_limits' = r.rate_limits
  /\ granted' = GrantedAfter(granted, rate_limits, ip, "revision", now, r.allowed)
  /\ IF ~r.allowed THEN
       /\ resp' = HTTPException("chat", ip, 429,
                    "Daily revision limit reached. Please try again tomorrow.", FALSE)
       /\ req' = req
     ELSE IF ~gemini_api_key THEN
       /\ resp' = HTTPException("chat", ip, 500,
                    "Google Gemini API key not configured", FALSE)
       /\ req' = req
     ELSE IF ~context_ok THEN
       /\ resp' = HTTPException("chat", ip, 500, "Internal Server Error", FALSE)
       /\ req' = req
     ELSE
       /\ resp' = NoResponse
       /\ req' = [req EXCEPT ![s] = [pc |-> "provider", endpoint |-> "chat",
                                     ip |-> ip, category |-> "",
                                     remaining |-> r.remaining]]
  /\ UNCHANGED <<fallback, now, ret, seen, recent, response_text, parsed, gemini_api_key>>

\* chat_with_ai, lines 469-486: the provider's answer and the response
ChatWithAiRespond(s, provider) ==
  /\ req[s].pc = "provider"
  /\ req[s].endpoint = "chat"
  /\ resp' = IF provider.outcome = "raises"
               THEN [HTTPException("chat", req[s].ip, 500, "Failed to get AI response", TRUE)
                       EXCEPT !.provider = provider]
               ELSE [NoResponse EXCEPT
                       !.endpoint = "chat", !.ip = req[s].ip, !.status = 200,
                       !.response = IF provider.outcome = "text" THEN provider.reply
                                    ELSE "Unable to generate response",
                       !.remaining = req[s].remaining,
                       !.prompt_built = TRUE, !.provider = provider]
  /\ req' = [req EXCEPT ![s] = IdleSlot]
  /\ UNCHANGED <<fallback, rate_limits, now, ret, seen, granted, recent, response_text, parsed,
                 gemini_api_key>>

\* get_rate_limit_status, lines 253-258
GetRateLimitStatus(ip) ==
  LET r == get_remaining_limits(rate_limits, ip, now) IN
  /\ rate_limits' = r.rate_limits
  /\ resp' = [NoResponse EXCEPT !.endpoint = "rate-limit", !.ip = ip, !.status = 200,
                                !.limits = r.value]
  /\ UNCHANGED <<fallback, now, ret, seen, granted, recent, response_text, parsed, req,
                 gemini_api_key>>

GatewayTick ==
  /\ now < MaxTime
  /\ now' = now + 1
  /\ resp' = NoResponse
  /\ UNCHANGED <<fallback, rate_limits, ret, seen, granted, recent, response_text, parsed, req,
                 gemini_api_key>>

GNext ==
  \/ \E s \in Slots, ip \in Callers, category \in RequestCategories :
       GeneratePalettes(s, ip, category)
  \/ \E s \in Slots, provider \in GenerationReplies : GeneratePalettesRespond(s, provider)
  \/ \E s \in Slots, ip \in Callers, context_ok \in BOOLEAN : ChatWithAi(s, ip, context_ok)
  \/ \E s \in Slots, provider \in ChatReplies : ChatWithAiRespond(s, provider)
  \/ \E ip \in Callers : GetRateLimitStatus(ip)
  \/ GatewayTick

GatewaySpec == GInit /\ [][GNext]_vars

\* ------------------------------------------------------------------ claims
Counter(rec, k) == IF k = "generation" THEN rec.generations ELSE rec.revisions
OtherKind(k) == IF k = "generation" THEN "revision" ELSE "generation"
HasRecord(ip) == rate_limits[ip] # NoRecord
InWindow(ip) == HasRecord(ip) /\ now < rate_limits[ip].reset_time
IsCheck(r, ip, k) == r.op = "check" /\ r.ip = ip /\ r.limit_type = k

RECURSIVE SumTo(_, _)
SumTo(f, n) == IF n = 0 THEN 0 ELSE f[n] + SumTo(f, n - 1)
\* calls of kind k allowed to ip in the interval [now-Day+1, now], which is
\* shorter than a day
AllowedWithinDay(ip, k) == SumTo(recent[ip][k], Day)

\* C1: every client record keeps 0 <= generations <= 1 and 0 <= revisions <= 3
\* after any sequence of check_rate_limit and get_remaining_limits calls.
C1_CountersWithinCaps ==
  \A ip \in Callers : HasRecord(ip) =>
    /\ 0 <= rate_limits[ip].generations /\ rate_limits[ip].generations <= 1
    /\ 0 <= rate_limits[ip].revisions /\ rate_limits[ip].revisions <= 3

\* a call was refused with both counters of the client at the floor
C1_Witness ==
  \E ip \in Callers :
    /\ ret.op = "check" /\ ret.ip = ip /\ ~ret.allowed
    /\ HasRecord(ip)
    /\ rate_limits[ip].generations = 0 /\ rate_limits[ip].revisions = 0

\* C2: with the counter of an action at 0 and the deadline not reached, a
\* check_rate_limit call for that action returns (false, 0) and leaves the
\* client's record unchanged.
C2_ExhaustedStaysRefused ==
  [][\A ip \in Callers, k \in Kinds :
       (/\ IsCheck(ret', ip, k)
        /\ InWindow(ip)
        /\ Counter(rate_limits[ip], k) = 0)
       => (/\ ret'.allowed = FALSE
           /\ ret'.remaining = 0
           /\ rate_limits'[ip] = rate_limits[ip])]_vars

\* a revision call refused inside the window while generations are still left
C2_Witness ==
  \E ip \in Callers :
    /\ IsCheck(ret, ip, "revision") /\ ~ret.allowed /\ ret.remaining = 0
    /\ InWindow(ip)
    /\ rate_limits[ip].revisions = 0 /\ rate_limits[ip].generations = 1

\* C3: a status read leaves rate_limits as it was (no record created, no
\* reset committed, caps reported as if reset), so every next
\* check_rate_limit call returns what it would have returned without it.
C3_StatusReadIsPure ==
  [][ret'.op = "status" =>
       /\ rate_limits' = rate_limits
       /\ (~InWindow(ret'.ip) => ret'.gen = 1 /\ ret'.rev = 3)
       /\ \A ip \in Callers, k \in LimitTypes :
            check_rate_limit(rate_limits', ip, k, now')
              = check_rate_limit(rate_limits, ip, k, now)]_vars

\* a status read past the deadline reported fresh caps while the stored
\* record still holds the exhausted counters
C3_Witness ==
  \E ip \in Callers :
    /\ ret.op = "status" /\ ret.ip = ip /\ ret.gen = 1 /\ ret.rev = 3
    /\ HasRecord(ip) /\ now >= rate_limits[ip].reset_time
    /\ rate_limits[ip].generations = 0 /\ rate_limits[ip].revisions = 0

\* C4: the first check_rate_limit call of a kind in a fresh window (the call
\* that creates or resets the record, or the first call of that kind after
\* it) is allowed with remaining = cap - 1; the creating or resetting call
\* leaves the other counter at its cap and the deadline at now + 24h.
C4_FirstCallOfWindow ==
  [][\A ip \in Callers, k \in Kinds :
       IsCheck(ret', ip, k) =>
         /\ (StartsWindow(rate_limits, ip, now) \/ k \notin seen[ip])
              => (/\ ret'.allowed
                  /\ ret'.remaining = Cap(k) - 1
                  /\ Counter(rate_limits'[ip], k) = Cap(k) - 1)
         /\ StartsWindow(rate_limits, ip, now)
              => (/\ rate_limits'[ip].reset_time = now + Day
                  /\ Counter(rate_limits'[ip], OtherKind(k)) = Cap(OtherKind(k)))]_vars

\* a generation call at or after the first deadline any record can have was
\* allowed as the call that opened the window
C4_Witness ==
  \E ip \in Callers :
    /\ IsCheck(ret, ip, "generation") /\ ret.allowed /\ ret.remaining = 0
    /\ now >= Day
    /\ rate_limits[ip].reset_time = now + Day
    /\ rate_limits[ip].revisions = 3
    /\ seen[ip] = {"generation"}

\* C6 as stated: in every interval shorter than 24 hours at most 1
\* generation call and 3 revision calls of a client are allowed.
C6_RollingWindow ==
  \A ip \in Callers, k \in Kinds : AllowedWithinDay(ip, k) <= Cap(k)

\* C6 amended: the 24-hour window is fixed, it starts at the call that
\* creates or resets the record.  Between two consecutive (re)sets of a
\* record at most cap calls of a kind are allowed, and an interval shorter
\* than 24 hours, which holds at most one (re)set, at most twice the cap.
C6_FixedWindow ==
  \A ip \in Callers, k \in Kinds :
    /\ granted[ip][k] <= Cap(k)
    /\ AllowedWithinDay(ip, k) <= 2 * Cap(k)

\* both caps were spent on either side of one reset, within less than a day
C6_Witness ==
  \E ip \in Callers :
    /\ AllowedWithinDay(ip, "generation") = 2
    /\ AllowedWithinDay(ip, "revision") = 6
    /\ granted[ip]["generation"] = 1 /\ granted[ip]["revision"] = 3

\* a request of slot s gets its response in this step
Responds(s, endpoint) ==
  /\ req[s].pc = "provider" /\ req[s].endpoint = endpoint
  /\ req'[s].pc = "idle"

\* a request to endpoint from ip is taken up in this step: it is refused or
\* fails at once, or it goes on to the provider
Begins(ip, endpoint) ==
  \/ /\ resp'.endpoint = endpoint /\ resp'.ip = ip /\ resp'.provider = NoReply
  \/ \E s \in Slots :
       /\ req[s].pc = "idle" /\ req'[s].pc = "provider"
       /\ req'[s].endpoint = endpoint /\ req'[s].ip = ip

InFlight(s, ip, endpoint) ==
  req[s].pc = "provider" /\ req[s].ip = ip /\ req[s].endpoint = endpoint

\* C5: with requests of one client handled concurrently, each allowed call
\* takes exactly one unit of the counter it read: the counter never goes
\* below 0 and at most cap calls of a kind are allowed between two
\* consecutive resets of the record.
C5_AtomicCheck ==
  \A ip \in Clients, k \in Kinds :
    /\ granted[ip][k] <= Cap(k)
    /\ HasRecord(ip) =>
         /\ Counter(rate_limits[ip], k) >= 0
         /\ Counter(rate_limits[ip], k) + granted[ip][k] = Cap(k)

\* two chat requests of one client wait on the provider at once, admitted
\* with different remaining counts, and the third unit is spent as well
C5_Witness ==
  \E ip \in Clients, s1 \in Slots, s2 \in Slots :
    /\ s1 # s2
    /\ InFlight(s1, ip, "chat") /\ InFlight(s2, ip, "chat")
    /\ req[s1].remaining # req[s2].remaining
    /\ granted[ip]["revision"] = 3
    /\ rate_limits[ip].revisions = 0

\* the extraction of the provider's answer is empty
NothingExtracted(provider) ==
  \/ provider.outcome = "no_text"
  \/ /\ provider.outcome = "text"
     /\ parse_palette_response(provider.text) = Returned(<<>>)

\* C7: a generate_palettes request that passed the quota check and whose
\* provider call raises, returns no text or yields an empty extraction is
\* answered 200 with the non-empty fallback list of its business category
\* and the remaining count of its quota check (0); the quota stays consumed.
C7_GenerationFallsBack ==
  [][\A s \in Slots :
       (/\ Responds(s, "generate-palettes")
        /\ (resp'.provider.outcome = "raises" \/ NothingExtracted(resp'.provider)))
       => (/\ resp'.status = 200
           /\ resp'.palettes = generate_fallback_palettes(req[s].category)
           /\ resp'.palettes # <<>>
           /\ resp'.remaining = req[s].remaining
           /\ resp'.remaining = 0
           /\ rate_limits' = rate_limits
           /\ granted' = granted)]_vars

\* the provider raised and the response carries the five default palettes
\* with no generation left
C7_Witness ==
  /\ resp.endpoint = "generate-palettes" /\ resp.status = 200
  /\ resp.provider.outcome = "raises"
  /\ resp.palettes = default_palettes
  /\ resp.remaining = 0
  /\ rate_limits[resp.ip].generations = 0

\* C8: a generate_palettes request of a client whose generation counter is
\* 0 within the window is refused with 429 before the prompt is built or
\* the provider called; no palettes are produced, the record is unchanged.
C8_ExhaustedGenerationIs429 ==
  [][\A ip \in Clients :
       (/\ Begins(ip, "generate-palettes")
        /\ InWindow(ip)
        /\ rate_limits[ip].generations = 0)
       => (/\ resp'.endpoint = "generate-palettes" /\ resp'.ip = ip
           /\ resp'.status = 429
           /\ ~resp'.prompt_built
           /\ resp'.provider = NoReply
           /\ resp'.palettes = <<>>
           /\ req' = req
           /\ rate_limits'[ip] = rate_limits[ip])]_vars

\* a generation request was refused inside the window
C8_Witness ==
  /\ resp.endpoint = "generate-palettes" /\ resp.status = 429
  /\ ~resp.prompt_built /\ resp.provider = NoReply
  /\ InWindow(resp.ip)
  /\ rate_limits[resp.ip].generations = 0
  /\ granted[resp.ip]["generation"] = 1

\* C9 as stated: in chat_with_ai a provider failure is answered 500, and
\* every 200 response carries the reply text the provider returned, with the
\* remaining count of the quota check; no reply text is made up.
C9_ChatNeverSynthesizes ==
  resp.endpoint = "chat" =>
    /\ resp.provider.outcome = "raises" => resp.status = 500
    /\ resp.status = 200 =>
         /\ resp.provider.outcome = "text"
         /\ resp.response = resp.provider.reply

\* C10 as stated: parse_palette_response never raises, whatever the text.
C10_NeverRaises == ~parsed.raised

\* the two scans of the text under extraction and what each would yield
ArrayScanParses ==
  ArrayMatch(response_text).found /\ json_loads(ArrayMatch(response_text).sub).ok
ObjectScanParses ==
  ObjectMatch(response_text).found /\ json_loads(ObjectMatch(response_text).sub).ok
ArrayScanResult == PalettesOf(json_loads(ArrayMatch(response_text).sub).v)
ObjectScanResult ==
  PalettesOf(dict_get(json_loads(ObjectMatch(response_text).sub).v, "palettes",
                      JArr(<<>>)))
NoBrackets ==
  \A i \in 1..Len(response_text) : response_text[i].c # "punct"

\* C11: the array scan comes first and, when its match parses, its elements
\* alone give the result; the object scan gives the result exactly when the
\* array scan has no match that parses; a text without brackets gives the
\* empty sequence.
C11_FirstSuccessWins ==
  parsed # NotParsed =>
    /\ ArrayScanParses => parsed = ArrayScanResult
    /\ (~ArrayScanParses /\ ObjectScanParses) => parsed = ObjectScanResult
    /\ (~ArrayScanParses /\ ~ObjectScanParses) => parsed = Returned(<<>>)
    /\ NoBrackets => parsed = Returned(<<>>)
    /\ \A d \in ArrayDocs :
         response_text = Dumps(d) => parsed = BuildPalettes(d.a, 1, <<>>)
    /\ \A d \in OrderDocs :
         response_text = Dumps(d) => parsed = BuildPalettes(<<FullPalette>>, 1, <<>>)

\* both scans parse and disagree, and the result is the array scan's: the
\* palette of the array, not the empty "palettes" field
C11_Witness ==
  /\ parsed # NotParsed
  /\ ArrayScanParses /\ ObjectScanParses
  /\ ArrayScanResult # ObjectScanResult
  /\ parsed = ArrayScanResult
  /\ Len(parsed.palettes) = 1
  /\ ObjectScanResult = Returned(<<>>)

\* the candidate palettes of the text under extraction: the elements of the
\* array scan's array, else of the object scan's "palettes" field
Candidates ==
  IF ArrayScanParses
    THEN Iterate(json_loads(ArrayMatch(response_text).sub).v)
  ELSE IF ObjectScanParses
    THEN Iterate(dict_get(json_loads(ObjectMatch(response_text).sub).v, "palettes",
                          JArr(<<>>)))
  ELSE [ok |-> FALSE, items |-> <<>>]

Absent == [k |-> "", t |-> "absent", s |-> "", a |-> <<>>]
IsString(v) == v.t = "str"
\* a candidate color: an object whose hex, name and usage, where present, are
\* strings
IsColorObject(c) ==
  /\ c.t = "obj"
  /\ \A key \in {"hex", "name", "usage"} : dict_get(c, key, JStr("")).t = "str"
\* a candidate palette: an object whose name, description and psychology,
\* where present, are strings and whose colors are absent, not iterable
\* (a number or null), or an array of candidate colors
IsPaletteObject(q) ==
  /\ q.t = "obj"
  /\ \A key \in {"name", "description", "psychology"} :
       dict_get(q, key, JStr("")).t = "str"
  /\ LET cs == dict_get(q, "colors", Absent)
     IN  \/ cs.t \in {"absent", "num", "null"}
         \/ cs.t = "arr" /\ \A i \in 1..Len(cs.a) : IsColorObject(cs.a[i])

\* the normalization the claim describes
NormalColor(c) ==
  [hex |-> dict_get(c, "hex", JStr("#000000")).s,
   name |-> dict_get(c, "name", JStr("Unknown")).s,
   usage |-> dict_get(c, "usage", JStr("General")).s]
NormalColors(q) ==
  LET cs == dict_get(q, "colors", Absent)
  IN  IF cs.t = "arr" THEN [i \in 1..Len(cs.a) |-> NormalColor(cs.a[i])] ELSE <<>>
NormalPalette(q) ==
  [name |-> dict_get(q, "name", JStr("Palette")).s,
   description |-> dict_get(q, "description", JStr("")).s,
   colors |-> NormalColors(q),
   psychology |-> dict_get(q, "psychology", JStr("")).s]

\* C12 as stated: whichever scan produced them, the candidate palettes come
\* back one for one and in order, each normalized: missing name "Palette",
\* missing description "", missing psychology "", colors absent or not
\* iterable the empty sequence, per color missing hex "#000000", missing
\* name "Unknown", missing usage "General", present fields as given.
C12_Normalization ==
  (/\ parsed # NotParsed
   /\ Candidates.ok
   /\ \A i \in 1..Len(Candidates.items) : IsPaletteObject(Candidates.items[i]))
  => parsed = Returned([i \in 1..Len(Candidates.items) |->
                         NormalPalette(Candidates.items[i])])

\* C13: generate_fallback_palettes never returns an empty list: a category
\* that is exactly one of the keys "Food & Beverage" and "Technology" gets
\* that key's curated list of one palette, every other string, the empty
\* string included, gets the default list of five palettes; the call
\* changes nothing else and gives the same list each time.
C13_Lookup ==
  fallback.called =>
    /\ Len(fallback.palettes) >= 1
    /\ fallback.category = "Food & Beverage" => fallback.palettes = <<WarmAppetite>>
    /\ fallback.category = "Technology" => fallback.palettes = <<DigitalTrust>>
    /\ fallback.category \notin {"Food & Beverage", "Technology"} =>
         /\ Len(fallback.palettes) = 5
         /\ fallback.palettes =
              <<ProfessionalClassic, ModernMinimal, NatureInspired, WarmSunset,
                CoolOcean>>
    /\ rate_limits = [ip \in Clients |-> NoRecord]
    /\ resp = NoResponse

\* the empty string has been looked up and got the five default palettes
C13_Witness ==
  /\ fallback.called
  /\ fallback.category = ""
  /\ Len(fallback.palettes) = 5
  /\ fallback.palettes[1].name = "Professional Classic"

\* C14: a call of check_rate_limit(ip, limit_type) leaves the record of every
\* other client as it was; when the call neither creates nor resets the
\* record and is allowed, the counter named by limit_type goes down by
\* exactly 1 and the other counter and reset_time stay as they were.
C14_OnlyNamedCounter ==
  [][\A ip \in Clients, k \in LimitTypes :
       IsCheck(ret', ip, k) =>
         /\ \A other \in Clients \ {ip} : rate_limits'[other] = rate_limits[other]
         /\ (~StartsWindow(rate_limits, ip, now) /\ ret'.allowed) =>
              /\ k \in Kinds
              /\ Counter(rate_limits'[ip], k) = Counter(rate_limits[ip], k) - 1
              /\ Counter(rate_limits'[ip], OtherKind(k))
                   = Counter(rate_limits[ip], OtherKind(k))
              /\ rate_limits'[ip].reset_time = rate_limits[ip].reset_time]_vars

\* ip1's second revision of a window has just been allowed (a first call of
\* a window would leave RevisionCap - 1) while ip2's record has run past its
\* reset_time and is still as ip2's last call left it
C14_Witness ==
  /\ IsCheck(ret, "ip1", "revision") /\ ret.allowed
  /\ rate_limits["ip1"].revisions = RevisionCap - 2
  /\ rate_limits["ip1"].generations = GenerationCap
  /\ now < rate_limits["ip1"].reset_time
  /\ HasRecord("ip2")
  /\ now >= rate_limits["ip2"].reset_time
  /\ rate_limits["ip2"].generations = 0

KindOf(endpoint) == IF endpoint = "generate-palettes" THEN "generation" ELSE "revision"
Endpoints == {"generate-palettes", "chat"}

\* C15: quota is never refunded.  A request that passed the quota check and
\* is answered 500 at once (no credentials, or a chat context that raises)
\* leaves the counter one below what the check found; a 500 after a
\* provider failure leaves the map as it is; a counter goes up only when a
\* quota check resets the record; so a later request of the same kind in
\* the same window finds the cap less every call allowed in the window.
C15_NoRefund ==
  [][\A ip \in Clients, e \in Endpoints :
       LET k == KindOf(e) IN
       /\ (resp'.status = 500 /\ resp'.endpoint = e /\ resp'.ip = ip) =>
            IF resp'.provider = NoReply
              THEN Counter(rate_limits'[ip], k) =
                     (IF StartsWindow(rate_limits, ip, now) THEN Cap(k)
                      ELSE Counter(rate_limits[ip], k)) - 1
              ELSE rate_limits' = rate_limits
       /\ (HasRecord(ip) /\ Counter(rate_limits'[ip], k) > Counter(rate_limits[ip], k)) =>
            /\ StartsWindow(rate_limits, ip, now)
            /\ \E e2 \in Endpoints : Begins(ip, e2)
       /\ (Begins(ip, e) /\ InWindow(ip)) =>
            Counter(rate_limits[ip], k) = Cap(k) - granted[ip][k]]_vars

\* without credentials every chat request that passed the quota check was
\* answered 500, and the client is now refused inside the window: the
\* three units are gone
C15_Witness ==
  /\ ~gemini_api_key
  /\ resp.endpoint = "chat" /\ resp.status = 429
  /\ InWindow(resp.ip)
  /\ rate_limits[resp.ip].revisions = 0
  /\ granted[resp.ip]["revision"] = RevisionCap

====
